---------------------------- MODULE Spec2Model ----------------------------
(***************************************************************************)
(* Sandbox materialization engine of the schema designer                   *)
(* (src/app/services/sandbox.service.ts): the schema fingerprint, the      *)
(* dependency sorter, the DDL synthesizer, the sandbox lifecycle manager   *)
(* and the generic CRUD gateway, over a model of the logical schema store, *)
(* the sandbox directory and the SQLite engine.                            *)
(***************************************************************************)
EXTENDS Integers, Sequences, FiniteSets, TLC

(* ------------------------------ bounds -------------------------------- *)

\* the primary keys the inserts into posts draw from are 1..MaxPostId
MaxPostId == 1

\* the relation lists the DDL synthesizer is given hold up to MaxRelations rows
MaxRelations == 3

(* ------------------------------ strings ------------------------------- *)

\* The UTF-16 code units of the strings the model uses (String.charCodeAt).
Chars(s) ==
    CASE s = "d1" -> <<100, 49>>
      [] s = "d2" -> <<100, 50>>
      [] s = "t1" -> <<116, 49>>
      [] s = "t2" -> <<116, 50>>
      [] s = "t3" -> <<116, 51>>
      [] s = "t9" -> <<116, 57>>
      [] s = "c1" -> <<99, 49>>
      [] s = "c2" -> <<99, 50>>
      [] s = "c3" -> <<99, 51>>
      [] s = "c4" -> <<99, 52>>
      [] s = "c5" -> <<99, 53>>
      [] s = "c9" -> <<99, 57>>
      [] s = "users" -> <<117, 115, 101, 114, 115>>
      [] s = "posts" -> <<112, 111, 115, 116, 115>>
      [] s = "drafts" -> <<100, 114, 97, 102, 116, 115>>
      [] s = "id" -> <<105, 100>>
      [] s = "name" -> <<110, 97, 109, 101>>
      [] s = "author_id" -> <<97, 117, 116, 104, 111, 114, 95, 105, 100>>
      [] s = "title" -> <<116, 105, 116, 108, 101>>
      [] s = "INT" -> <<73, 78, 84>>
      [] s = "TEXT" -> <<84, 69, 88, 84>>
      [] s = "VARCHAR" -> <<86, 65, 82, 67, 72, 65, 82>>
      [] s = "BOOLEAN" -> <<66, 79, 79, 76, 69, 65, 78>>
      [] s = "tables" -> <<116, 97, 98, 108, 101, 115>>
      [] s = "columns" -> <<99, 111, 108, 117, 109, 110, 115>>
      [] s = "relations" -> <<114, 101, 108, 97, 116, 105, 111, 110, 115>>
      [] s = "tableId" -> <<116, 97, 98, 108, 101, 73, 100>>
      [] s = "type" -> <<116, 121, 112, 101>>
      [] s = "isPk" -> <<105, 115, 80, 107>>
      [] s = "isNullable" -> <<105, 115, 78, 117, 108, 108, 97, 98, 108, 101>>
      [] s = "defaultValue" -> <<100, 101, 102, 97, 117, 108, 116, 86, 97, 108, 117, 101>>
      [] s = "fromTableId" -> <<102, 114, 111, 109, 84, 97, 98, 108, 101, 73, 100>>
      [] s = "fromColumnId" -> <<102, 114, 111, 109, 67, 111, 108, 117, 109, 110, 73, 100>>
      [] s = "toTableId" -> <<116, 111, 84, 97, 98, 108, 101, 73, 100>>
      [] s = "toColumnId" -> <<116, 111, 67, 111, 108, 117, 109, 110, 73, 100>>
      [] s = "true" -> <<116, 114, 117, 101>>
      [] s = "false" -> <<102, 97, 108, 115, 101>>
      [] s = "null" -> <<110, 117, 108, 108>>
      [] s = "CHAR" -> <<67, 72, 65, 82>>
      [] s = "UUID" -> <<85, 85, 73, 68>>
      [] s = "BOOL" -> <<66, 79, 79, 76>>
      [] s = "DATE" -> <<68, 65, 84, 69>>
      [] s = "TIME" -> <<84, 73, 77, 69>>
      [] s = "FLOAT" -> <<70, 76, 79, 65, 84>>
      [] s = "REAL" -> <<82, 69, 65, 76>>
      [] s = "DECIMAL" -> <<68, 69, 67, 73, 77, 65, 76>>
      [] s = "DOUBLE" -> <<68, 79, 85, 66, 76, 69>>
      [] s = "BIGINT" -> <<66, 73, 71, 73, 78, 84>>
      [] s = "INTEGER" -> <<73, 78, 84, 69, 71, 69, 82>>
      [] s = "SQLITE" -> <<83, 81, 76, 73, 84, 69>>
      [] s = "_schema_hash" -> <<95, 115, 99, 104, 101, 109, 97, 95, 104, 97, 115, 104>>
      [] s = "hash" -> <<104, 97, 115, 104>>
      [] s = "nosuch" -> <<110, 111, 115, 117, 99, 104>>
      [] s = "untitled" -> <<117, 110, 116, 105, 116, 108, 101, 100>>
      [] s = "uuid()" -> <<117, 117, 105, 100, 40, 41>>
      [] s = "now()" -> <<110, 111, 119, 40, 41>>
      [] s = "NULL" -> <<78, 85, 76, 76>>
      [] s = "0" -> <<48>>
      [] s = "a" -> <<97>>
      [] s = "b" -> <<98>>
      [] s = "tags" -> <<116, 97, 103, 115>>
      [] s = "" -> <<>>
      [] s = "sqlite3" -> <<115, 113, 108, 105, 116, 101, 51>>
      [] s = "c8" -> <<99, 56>>
      [] s = "t8" -> <<116, 56>>
      [] s = "1" -> <<49>>
      [] s = "NUMERIC" -> <<78, 85, 77, 69, 82, 73, 67>>
      [] s = "JSON" -> <<74, 83, 79, 78>>
      [] s = "BB" -> <<66, 66>>
      [] s = "Aa" -> <<65, 97>>
      [] s = "users\"--" -> <<117, 115, 101, 114, 115, 34, 45, 45>>

\* String.toUpperCase on code units (ASCII letters)
ToUpperCase(cs) ==
    [i \in 1..Len(cs) |-> IF cs[i] >= 97 /\ cs[i] <= 122 THEN cs[i] - 32 ELSE cs[i]]

\* String.includes on code units
IncludesCodes(cs, sub) ==
    \E i \in 1..(Len(cs) - Len(sub) + 1) : SubSeq(cs, i, i + Len(sub) - 1) = sub

\* type.toUpperCase().includes(t)
TypeIncludes(type, t) == IncludesCodes(ToUpperCase(Chars(type)), Chars(t))

\* a < b in the order of String.localeCompare, for identifiers made of
\* lower-case letters and digits (code-unit order, a prefix first)
RECURSIVE CodesLess(_, _, _)
CodesLess(a, b, i) ==
    IF i > Len(b) THEN FALSE
    ELSE IF i > Len(a) THEN TRUE
    ELSE IF a[i] # b[i] THEN a[i] < b[i]
    ELSE CodesLess(a, b, i + 1)

localeCompare(a, b) ==
    IF a = b THEN 0 ELSE IF CodesLess(Chars(a), Chars(b), 1) THEN -1 ELSE 1

(* ------------------------ logical schema store ------------------------ *)

\* A diagram identity is a string; the model keeps it split at "/" into
\* segments, each a sequence of tokens.  Diagram identities of the store are
\* crypto.randomUUID() values: one segment, one token.
D1 == << <<"d1">> >>
D2 == << <<"d2">> >>

StoreDiagrams == {D1, D2}

Table(id, d, name) == [id |-> id, diagramId |-> d, name |-> name]

\* defaultValue is <<>> (null) or <<text>>
Column(id, tableId, name, type, isPk, isNullable, defaultValue) ==
    [id |-> id, tableId |-> tableId, name |-> name, type |-> type,
     isPk |-> isPk, isNullable |-> isNullable, defaultValue |-> defaultValue]

Relation(d, ft, fc, tt, tc) ==
    [diagramId |-> d, fromTableId |-> ft, fromColumnId |-> fc,
     toTableId |-> tt, toColumnId |-> tc]

\* The snapshots of a diagram's logical schema the editor moves between:
\*   "empty"   a new diagram, no table yet
\*   "blog"    users(id INT pk, name TEXT), posts(id INT pk, author_id INT),
\*             posts.author_id -> users.id
\*   "draft"   "blog" plus a table that has no column yet
\*   "single"  one table tags(id INT pk)
\*   "lite"    "single" plus a table sqlite3(id INT pk)
Versions(d) ==
    IF d = D1 THEN {"empty", "blog", "draft"} ELSE {"empty", "single"}

UsersTable == Table("t1", D1, "users")
PostsTable == Table("t2", D1, "posts")
DraftsTable == Table("t3", D1, "drafts")

BlogColumns ==
    << Column("c1", "t1", "id", "INT", TRUE, FALSE, <<>>),
       Column("c2", "t1", "name", "TEXT", FALSE, TRUE, <<>>),
       Column("c3", "t2", "id", "INT", TRUE, FALSE, <<>>),
       Column("c4", "t2", "author_id", "INT", FALSE, TRUE, <<>>) >>

\* rows of the tables table of one diagram, in rowid order
TablesRows(d, v) ==
    CASE v = "blog" -> <<UsersTable, PostsTable>>
      [] v = "draft" -> <<UsersTable, PostsTable, DraftsTable>>
      [] v = "single" -> <<Table("t9", D2, "tags")>>
      [] v = "lite" -> <<Table("t9", D2, "tags"), Table("t8", D2, "sqlite3")>>
      [] OTHER -> <<>>

ColumnsRows(d, v) ==
    CASE v \in {"blog", "draft"} -> BlogColumns
      [] v = "single" -> <<Column("c9", "t9", "id", "INT", TRUE, FALSE, <<>>)>>
      [] v = "lite" -> << Column("c9", "t9", "id", "INT", TRUE, FALSE, <<>>),
                          Column("c8", "t8", "id", "INT", TRUE, FALSE, <<>>) >>
      [] OTHER -> <<>>

RelationsRows(d, v) ==
    CASE v \in {"blog", "draft"} -> <<Relation(D1, "t2", "c4", "t1", "c1")>>
      [] OTHER -> <<>>

\* db.select().from(tables).where(eq(tables.diagramId, diagramId))
SelectTables(ver, diagramId) ==
    IF diagramId \in StoreDiagrams THEN TablesRows(diagramId, ver[diagramId]) ELSE <<>>

\* db.select().from(columns): the columns of every diagram
SelectColumns(ver) == ColumnsRows(D1, ver[D1]) \o ColumnsRows(D2, ver[D2])

\* db.select().from(relations).where(eq(relations.diagramId, diagramId))
SelectRelations(ver, diagramId) ==
    IF diagramId \in StoreDiagrams THEN RelationsRows(diagramId, ver[diagramId]) ELSE <<>>

(* -------------------------- schema fingerprint ------------------------ *)

\* Array.prototype.sort with a comparator on one key: stable insertion
RECURSIVE InsertByKey(_, _, _)
InsertByKey(sorted, x, key) ==
    IF sorted = <<>> THEN <<x>>
    ELSE IF localeCompare(sorted[Len(sorted)][key], x[key]) <= 0
         THEN Append(sorted, x)
         ELSE Append(InsertByKey(SubSeq(sorted, 1, Len(sorted) - 1), x, key),
                     sorted[Len(sorted)])

RECURSIVE SortByKey(_, _)
SortByKey(xs, key) ==
    IF xs = <<>> THEN <<>>
    ELSE InsertByKey(SortByKey(SubSeq(xs, 1, Len(xs) - 1), key), xs[Len(xs)], key)

\* allColumns.filter(c => fetchedTables.some(t => t.id === c.tableId))
ColumnsOfTables(allColumns, fetchedTables) ==
    SelectSeq(allColumns,
              LAMBDA c : \E i \in 1..Len(fetchedTables) : fetchedTables[i].id = c.tableId)

\* JSON.stringify of a string, of a boolean and of a nullable string
JsonString(s) == <<34>> \o Chars(s) \o <<34>>
JsonBool(b) == IF b THEN Chars("true") ELSE Chars("false")
JsonNullable(v) == IF v = <<>> THEN Chars("null") ELSE JsonString(v[1])

\* "key":
JsonKey(k) == JsonString(k) \o <<58>>

RECURSIVE JsonJoin(_, _)
JsonJoin(items, i) ==
    IF i > Len(items) THEN <<>>
    ELSE (IF i > 1 THEN <<44>> ELSE <<>>) \o items[i] \o JsonJoin(items, i + 1)

JsonArray(items) == <<91>> \o JsonJoin(items, 1) \o <<93>>

JsonTable(t) ==
    <<123>> \o JsonKey("id") \o JsonString(t.id) \o <<44>>
            \o JsonKey("name") \o JsonString(t.name) \o <<125>>

JsonColumn(c) ==
    <<123>> \o JsonKey("id") \o JsonString(c.id) \o <<44>>
            \o JsonKey("tableId") \o JsonString(c.tableId) \o <<44>>
            \o JsonKey("name") \o JsonString(c.name) \o <<44>>
            \o JsonKey("type") \o JsonString(c.type) \o <<44>>
            \o JsonKey("isPk") \o JsonBool(c.isPk) \o <<44>>
            \o JsonKey("isNullable") \o JsonBool(c.isNullable) \o <<44>>
            \o JsonKey("defaultValue") \o JsonNullable(c.defaultValue) \o <<125>>

JsonRelation(r) ==
    <<123>> \o JsonKey("fromTableId") \o JsonString(r.fromTableId) \o <<44>>
            \o JsonKey("fromColumnId") \o JsonString(r.fromColumnId) \o <<44>>
            \o JsonKey("toTableId") \o JsonString(r.toTableId) \o <<44>>
            \o JsonKey("toColumnId") \o JsonString(r.toColumnId) \o <<125>>

\* the deterministic string representation of the schema
schemaStr(fetchedTables, tableColumns, fetchedRelations) ==
    LET ts == SortByKey(fetchedTables, "id")
        cs == SortByKey(tableColumns, "id")
        rs == SortByKey(fetchedRelations, "fromColumnId")
    IN  <<123>> \o JsonKey("tables")
                \o JsonArray([i \in 1..Len(ts) |-> JsonTable(ts[i])]) \o <<44>>
                \o JsonKey("columns")
                \o JsonArray([i \in 1..Len(cs) |-> JsonColumn(cs[i])]) \o <<44>>
                \o JsonKey("relations")
                \o JsonArray([i \in 1..Len(rs) |-> JsonRelation(rs[i])]) \o <<125>>

\* One round of the hash loop on a 32-bit integer kept as two 16-bit halves
\* <<high, low>>: hash = ((hash << 5) - hash) + char; hash = hash & hash
HashStep(h, char) ==
    LET lo == h[2] * 31 + char
        hi == h[1] * 31 + (lo \div 65536)
    IN  <<hi % 65536, lo % 65536>>

\* the rounds for str[i..j]
RECURSIVE HashRounds(_, _, _, _)
HashRounds(str, i, j, h) ==
    IF i > j \/ h[1] < 0 THEN h ELSE HashRounds(str, i + 1, j, HashStep(h, str[i]))

\* for (let i = 0; i < schemaStr.length; i++), taken 32 rounds at a time
RECURSIVE HashLoop(_, _, _)
HashLoop(str, i, h) ==
    IF i > Len(str) THEN h
    ELSE LET j == IF i + 31 < Len(str) THEN i + 31 ELSE Len(str)
         IN  HashLoop(str, j + 1, HashRounds(str, i, j, h))

HexDigit(n) ==
    CASE n = 0 -> "0" [] n = 1 -> "1" [] n = 2 -> "2" [] n = 3 -> "3"
      [] n = 4 -> "4" [] n = 5 -> "5" [] n = 6 -> "6" [] n = 7 -> "7"
      [] n = 8 -> "8" [] n = 9 -> "9" [] n = 10 -> "a" [] n = 11 -> "b"
      [] n = 12 -> "c" [] n = 13 -> "d" [] n = 14 -> "e" [] n = 15 -> "f"

\* the four hexadecimal digits of a 16-bit half
Hex4(n) ==
    << HexDigit(n \div 4096), HexDigit((n \div 256) % 16),
       HexDigit((n \div 16) % 16), HexDigit(n % 16) >>

RECURSIVE StripZeros(_)
StripZeros(ds) ==
    IF Len(ds) > 1 /\ ds[1] = "0" THEN StripZeros(Tail(ds)) ELSE ds

\* Number.prototype.toString(16) of the signed 32-bit value of <<high, low>>
HashToString(h) ==
    LET negative == h[1] >= 32768
        lo == IF negative THEN (65536 - h[2]) % 65536 ELSE h[2]
        hi == IF negative
              THEN (IF h[2] = 0 THEN 65536 - h[1] ELSE 65535 - h[1])
              ELSE h[1]
    IN  (IF negative THEN <<"-">> ELSE <<>>) \o StripZeros(Hex4(hi) \o Hex4(lo))

\* calculateSchemaHash, from the three query results
schemaHashOf(fetchedTables, allColumns, fetchedRelations) ==
    HashToString(HashLoop(
        schemaStr(fetchedTables, ColumnsOfTables(allColumns, fetchedTables),
                  fetchedRelations),
        1, <<0, 0>>))

(* --------------------------- dependency sorter ------------------------ *)

\* sortTablesByDependency that leaves the tables as they came
sortTablesAsGiven(tableList, relationList) == tableList

\* sortTablesByDependency: the referenced tables that have no foreign key to
\* another referenced table, then every table not yet added
sortTablesByDependency(tableList, relationList) ==
    LET referencedTableIds == {relationList[i].toTableId : i \in 1..Len(relationList)}
        hasFkToOther(table) ==
            \E i \in 1..Len(relationList) :
                /\ relationList[i].fromTableId = table.id
                /\ relationList[i].toTableId \in referencedTableIds
                /\ relationList[i].toTableId # table.id
        first == SelectSeq(tableList,
                    LAMBDA t : t.id \in referencedTableIds /\ ~hasFkToOther(t))
        added == {first[i].id : i \in 1..Len(first)}
    IN  first \o SelectSeq(tableList, LAMBDA t : t.id \notin added)

(* ----------------------------- type lowering -------------------------- *)

\* mapToSqliteType
mapToSqliteType(sqlType) ==
    IF TypeIncludes(sqlType, "INT") THEN "INTEGER"
    ELSE IF \/ TypeIncludes(sqlType, "CHAR") \/ TypeIncludes(sqlType, "TEXT")
            \/ TypeIncludes(sqlType, "UUID") \/ TypeIncludes(sqlType, "VARCHAR")
         THEN "TEXT"
    ELSE IF TypeIncludes(sqlType, "BOOL") THEN "INTEGER"
    ELSE IF TypeIncludes(sqlType, "DATE") \/ TypeIncludes(sqlType, "TIME") THEN "TEXT"
    ELSE IF \/ TypeIncludes(sqlType, "FLOAT") \/ TypeIncludes(sqlType, "REAL")
            \/ TypeIncludes(sqlType, "DECIMAL") \/ TypeIncludes(sqlType, "DOUBLE")
         THEN "REAL"
    ELSE "TEXT"

\* val.replace(/'/g, "''") on code units
RECURSIVE DoubleQuotes(_, _)
DoubleQuotes(cs, i) ==
    IF i > Len(cs) THEN <<>>
    ELSE (IF cs[i] = 39 THEN <<39, 39>> ELSE <<cs[i]>>) \o DoubleQuotes(cs, i + 1)

\* (val.startsWith("'") && val.endsWith("'")) || (val.startsWith('"') && val.endsWith('"'))
isQuoted(cs) ==
    /\ Len(cs) > 0
    /\ \/ cs[1] = 39 /\ cs[Len(cs)] = 39
       \/ cs[1] = 34 /\ cs[Len(cs)] = 34

\* The DEFAULT clause of a column: kind "none" (no clause), "uuid" and "now"
\* (the two SQL expressions), "null", "unquoted" or "quoted" with the code
\* units of the emitted literal.
DefaultClause(col) ==
    LET none == [kind |-> "none", text |-> <<>>]
    IN  IF col.defaultValue = <<>> \/ col.defaultValue = <<"">> THEN none
        ELSE LET dv == col.defaultValue[1]
                 val == Chars(dv)
             IN  IF dv = "uuid()" THEN [kind |-> "uuid", text |-> <<>>]
                 ELSE IF dv = "now()" THEN [kind |-> "now", text |-> <<>>]
                 ELSE IF ToUpperCase(val) = Chars("NULL")
                      THEN [kind |-> "null", text |-> <<>>]
                 ELSE IF \E t \in {"INT", "BIGINT", "INTEGER", "BOOLEAN"} :
                            TypeIncludes(col.type, t)
                      THEN [kind |-> "unquoted",
                            text |-> IF dv = "true" THEN <<49>>
                                     ELSE IF dv = "false" THEN <<48>> ELSE val]
                 ELSE IF \E t \in {"FLOAT", "DECIMAL", "REAL"} :
                            TypeIncludes(col.type, t)
                      THEN [kind |-> "unquoted", text |-> val]
                 ELSE [kind |-> "quoted",
                       text |-> IF isQuoted(val) THEN val
                                ELSE <<39>> \o DoubleQuotes(val, 1) \o <<39>>]

(* ---------------------------- DDL synthesizer ------------------------- *)

\* Array.prototype.find: <<the first match>> or <<>>
Find(xs, id) ==
    LET hits == SelectSeq(xs, LAMBDA x : x.id = id)
    IN  IF hits = <<>> THEN <<>> ELSE <<hits[1]>>

\* generateCreateTableSql with a FOREIGN KEY clause for the resolved
\* relations of every table
generateCreateTableSqlAllFks(table, cols, relationList, allTables, allColumns) ==
    LET line(col) == [name |-> col.name, type |-> mapToSqliteType(col.type),
                      pk |-> col.isPk, notnull |-> ~col.isNullable,
                      dflt |-> DefaultClause(col)]
        resolved == SelectSeq(relationList, LAMBDA fk :
                        /\ Find(allColumns, fk.fromColumnId) # <<>>
                        /\ Find(allTables, fk.toTableId) # <<>>
                        /\ Find(allColumns, fk.toColumnId) # <<>>)
        clause(fk) == [col |-> Find(allColumns, fk.fromColumnId)[1].name,
                       refTable |-> Find(allTables, fk.toTableId)[1].name,
                       refCol |-> Find(allColumns, fk.toColumnId)[1].name]
    IN  [name |-> table.name,
         cols |-> [i \in 1..Len(cols) |-> line(cols[i])],
         fks |-> [i \in 1..Len(resolved) |-> clause(resolved[i])]]

\* generateCreateTableSql: the CREATE TABLE statement, kept as its parts: the
\* table name, one definition per column, one FOREIGN KEY clause per
\* resolved relation
generateCreateTableSql(table, cols, relationList, allTables, allColumns) ==
    LET line(col) == [name |-> col.name, type |-> mapToSqliteType(col.type),
                      pk |-> col.isPk, notnull |-> ~col.isNullable,
                      dflt |-> DefaultClause(col)]
        tableFks == SelectSeq(relationList, LAMBDA r : r.fromTableId = table.id)
        resolved == SelectSeq(tableFks, LAMBDA fk :
                        /\ Find(allColumns, fk.fromColumnId) # <<>>
                        /\ Find(allTables, fk.toTableId) # <<>>
                        /\ Find(allColumns, fk.toColumnId) # <<>>)
        clause(fk) == [col |-> Find(allColumns, fk.fromColumnId)[1].name,
                       refTable |-> Find(allTables, fk.toTableId)[1].name,
                       refCol |-> Find(allColumns, fk.toColumnId)[1].name]
    IN  [name |-> table.name,
         cols |-> [i \in 1..Len(cols) |-> line(cols[i])],
         fks |-> [i \in 1..Len(resolved) |-> clause(resolved[i])]]

(* ------------------------------ sandbox path -------------------------- *)

SANDBOXES_DIR == << <<"sandboxes">> >>

\* `sandbox-${diagramId}.db`
SandboxFileName(diagramId) ==
    [i \in 1..Len(diagramId) |->
        (IF i = 1 THEN <<"sandbox-">> ELSE <<>>) \o diagramId[i]
            \o (IF i = Len(diagramId) THEN <<".db">> ELSE <<>>)]

\* path.join's normalization of the joined segments: "" and "." are dropped,
\* ".." removes the segment before it
RECURSIVE Normalize(_, _, _)
Normalize(segs, i, out) ==
    IF i > Len(segs) THEN out
    ELSE IF segs[i] = <<>> \/ segs[i] = <<".">> THEN Normalize(segs, i + 1, out)
    ELSE IF segs[i] = <<"..">> /\ out # <<>> /\ out[Len(out)] # <<"..">>
         THEN Normalize(segs, i + 1, SubSeq(out, 1, Len(out) - 1))
    ELSE Normalize(segs, i + 1, Append(out, segs[i]))

\* getSandboxPath
getSandboxPath(diagramId) ==
    Normalize(SANDBOXES_DIR \o SandboxFileName(diagramId), 1, <<>>)

(* ------------------------------ SQLite engine ------------------------- *)

\* A database file is the sequence of its tables in creation order; a table
\* is [name, cols, fks, rows], cols and fks as in the CREATE TABLE statement
\* and rows a sequence of functions from column name to value.
EmptyDb == <<>>

Null == [t |-> "null", i |-> 0, s |-> <<>>]
IntV(n) == [t |-> "int", i |-> n, s |-> <<>>]
TextV(s) == [t |-> "text", i |-> 0, s |-> s]

\* identifiers compare without regard to ASCII case
NameEq(a, b) == a = b \/ ToUpperCase(Chars(a)) = ToUpperCase(Chars(b))

TableIndex(db, name) ==
    LET hits == {i \in 1..Len(db) : NameEq(db[i].name, name)}
    IN  IF hits = {} THEN 0 ELSE CHOOSE i \in hits : TRUE

ColNames(tbl) == {tbl.cols[i].name : i \in 1..Len(tbl.cols)}

HasColumn(tbl, c) == \E i \in 1..Len(tbl.cols) : NameEq(tbl.cols[i].name, c)

\* the declared name of the column an identifier names
ColumnNamed(tbl, c) ==
    tbl.cols[CHOOSE i \in 1..Len(tbl.cols) : NameEq(tbl.cols[i].name, c)].name

IsPkColumn(tbl, c) ==
    \E i \in 1..Len(tbl.cols) : NameEq(tbl.cols[i].name, c) /\ tbl.cols[i].pk

SqlOk(db) == [ok |-> TRUE, db |-> db, error |-> ""]
SqlError(db, msg) == [ok |-> FALSE, db |-> db, error |-> msg]

\* name LIKE 'sqlite_%': "sqlite", any one character, then anything
LikeSqlite(name) ==
    LET cs == ToUpperCase(Chars(name))
    IN  Len(cs) >= 7 /\ SubSeq(cs, 1, 6) = Chars("SQLITE")

\* a name the engine reserves: it starts with "sqlite_"
ReservedName(name) ==
    LET cs == ToUpperCase(Chars(name))
    IN  Len(cs) >= 7 /\ SubSeq(cs, 1, 6) = Chars("SQLITE") /\ cs[7] = 95

\* exec of a CREATE TABLE statement
SqlCreateTable(db, stmt) ==
    IF stmt.cols = <<>> THEN SqlError(db, "syntax error")
    ELSE IF ReservedName(stmt.name) THEN SqlError(db, "object name reserved for internal use")
    ELSE IF TableIndex(db, stmt.name) # 0 THEN SqlError(db, "table already exists")
    ELSE IF \E i, j \in 1..Len(stmt.cols) :
                i < j /\ NameEq(stmt.cols[i].name, stmt.cols[j].name)
         THEN SqlError(db, "duplicate column name")
    ELSE IF Cardinality({i \in 1..Len(stmt.cols) : stmt.cols[i].pk}) > 1
         THEN SqlError(db, "table has more than one primary key")
    ELSE IF \E k \in 1..Len(stmt.fks) :
                ~\E i \in 1..Len(stmt.cols) : NameEq(stmt.cols[i].name, stmt.fks[k].col)
         THEN SqlError(db, "unknown column in foreign key definition")
    ELSE SqlOk(Append(db, [name |-> stmt.name, cols |-> stmt.cols,
                           fks |-> stmt.fks, rows |-> <<>>]))

\* CREATE TABLE _schema_hash (hash TEXT)
SchemaHashTableStmt ==
    [name |-> "_schema_hash",
     cols |-> <<[name |-> "hash", type |-> "TEXT", pk |-> FALSE, notnull |-> FALSE,
                 dflt |-> [kind |-> "none", text |-> <<>>]]>>,
     fks |-> <<>>]

\* the value a column takes when an INSERT names no value for it (the value
\* of a DEFAULT expression or literal is kept abstract)
DefaultValueOf(col) ==
    IF col.dflt.kind \in {"none", "null"} THEN Null ELSE TextV(<<"default">>)

\* the child rows whose foreign key names no parent row: <<table, row, fk>>
Dangling(db) ==
    {x \in UNION {{<<db[ti].name, db[ti].rows[ri], db[ti].fks[k]>> :
                        ri \in 1..Len(db[ti].rows), k \in 1..Len(db[ti].fks)} :
                  ti \in 1..Len(db)} :
        /\ x[2][x[3].col] # Null
        /\ LET pi == TableIndex(db, x[3].refTable)
           IN  \/ pi = 0
               \/ ~HasColumn(db[pi], x[3].refCol)
               \/ ~\E ri \in 1..Len(db[pi].rows) :
                       db[pi].rows[ri][ColumnNamed(db[pi], x[3].refCol)]
                           = x[2][x[3].col]}

\* a foreign key whose parent column is not the parent's primary key
FkMismatch(db, ti) ==
    \E ci \in 1..Len(db) : \E k \in 1..Len(db[ci].fks) :
        LET fk == db[ci].fks[k]
            pi == TableIndex(db, fk.refTable)
        IN  /\ ci = ti \/ pi = ti
            /\ pi # 0
            /\ ~IsPkColumn(db[pi], fk.refCol)

\* CheckWrite of an engine whose failing statement is not undone: the error
\* is reported and the replaced rows stay
CheckWriteLate(db, fkOn, ti, rows) ==
    LET tbl == db[ti]
        after == [db EXCEPT ![ti].rows = rows]
    IN  IF \E ri \in 1..Len(rows) : \E ci \in 1..Len(tbl.cols) :
               tbl.cols[ci].notnull /\ rows[ri][tbl.cols[ci].name] = Null
        THEN SqlError(after, "NOT NULL constraint failed")
        ELSE IF \E r1, r2 \in 1..Len(rows) : \E ci \in 1..Len(tbl.cols) :
                    /\ r1 < r2 /\ tbl.cols[ci].pk
                    /\ rows[r1][tbl.cols[ci].name] # Null
                    /\ rows[r1][tbl.cols[ci].name] = rows[r2][tbl.cols[ci].name]
        THEN SqlError(after, "UNIQUE constraint failed")
        ELSE IF fkOn /\ ~(Dangling(after) \subseteq Dangling(db))
        THEN SqlError(after, "FOREIGN KEY constraint failed")
        ELSE SqlOk(after)

\* the constraints checked when a statement has replaced the rows of table ti
CheckWrite(db, fkOn, ti, rows) ==
    LET tbl == db[ti]
        after == [db EXCEPT ![ti].rows = rows]
    IN  IF \E ri \in 1..Len(rows) : \E ci \in 1..Len(tbl.cols) :
               tbl.cols[ci].notnull /\ rows[ri][tbl.cols[ci].name] = Null
        THEN SqlError(db, "NOT NULL constraint failed")
        ELSE IF \E r1, r2 \in 1..Len(rows) : \E ci \in 1..Len(tbl.cols) :
                    /\ r1 < r2 /\ tbl.cols[ci].pk
                    /\ rows[r1][tbl.cols[ci].name] # Null
                    /\ rows[r1][tbl.cols[ci].name] = rows[r2][tbl.cols[ci].name]
        THEN SqlError(db, "UNIQUE constraint failed")
        ELSE IF fkOn /\ FkMismatch(db, ti) THEN SqlError(db, "foreign key mismatch")
        ELSE IF fkOn /\ ~(Dangling(after) \subseteq Dangling(db))
        THEN SqlError(db, "FOREIGN KEY constraint failed")
        ELSE SqlOk(after)

\* the largest integer in the primary-key column of the rows, 0 when none
MaxKey(rows, c) ==
    LET ks == {rows[ri][c].i : ri \in {r \in 1..Len(rows) : rows[r][c].t = "int"}}
    IN  IF ks = {} THEN 0 ELSE CHOOSE k \in ks : \A m \in ks : m <= k

ValueAt(keys, values, c) ==
    values[CHOOSE k \in 1..Len(keys) : NameEq(keys[k], c)]

Names(keys, c) == \E k \in 1..Len(keys) : NameEq(keys[k], c)

\* INSERT INTO "tableName" (keys) VALUES (?...), or DEFAULT VALUES for no key
SqlInsert(db, fkOn, tableName, keys, values) ==
    LET ti == TableIndex(db, tableName)
    IN  IF ti = 0 THEN SqlError(db, "no such table")
        ELSE IF \E k \in 1..Len(keys) : ~HasColumn(db[ti], keys[k])
        THEN SqlError(db, "table has no column named")
        ELSE LET tbl == db[ti]
                 given(col) == IF Names(keys, col.name)
                               THEN ValueAt(keys, values, col.name)
                               ELSE DefaultValueOf(col)
                 \* an INTEGER PRIMARY KEY left NULL takes the next rowid
                 cell(col) == IF col.pk /\ col.type = "INTEGER" /\ given(col) = Null
                              THEN IntV(MaxKey(tbl.rows, col.name) + 1)
                              ELSE given(col)
                 row == [c \in ColNames(tbl) |->
                            cell(tbl.cols[CHOOSE i \in 1..Len(tbl.cols) :
                                              tbl.cols[i].name = c])]
             IN  CheckWrite(db, fkOn, ti, Append(tbl.rows, row))

\* UPDATE "tableName" SET "k" = ?, ... WHERE "pkColumn" = ?
SqlUpdate(db, fkOn, tableName, pkColumn, pkValue, keys, values) ==
    LET ti == TableIndex(db, tableName)
    IN  IF keys = <<>> THEN SqlError(db, "syntax error")
        ELSE IF ti = 0 THEN SqlError(db, "no such table")
        ELSE IF \/ \E k \in 1..Len(keys) : ~HasColumn(db[ti], keys[k])
                \/ ~HasColumn(db[ti], pkColumn)
        THEN SqlError(db, "no such column")
        ELSE LET tbl == db[ti]
                 pk == ColumnNamed(tbl, pkColumn)
                 set(row) == [c \in ColNames(tbl) |->
                                 IF Names(keys, c) THEN ValueAt(keys, values, c)
                                 ELSE row[c]]
                 rows == [ri \in 1..Len(tbl.rows) |->
                             IF pkValue # Null /\ tbl.rows[ri][pk] = pkValue
                             THEN set(tbl.rows[ri]) ELSE tbl.rows[ri]]
             IN  CheckWrite(db, fkOn, ti, rows)

\* DELETE FROM "tableName" WHERE "pkColumn" = ?
SqlDelete(db, fkOn, tableName, pkColumn, pkValue) ==
    LET ti == TableIndex(db, tableName)
    IN  IF ti = 0 THEN SqlError(db, "no such table")
        ELSE IF ~HasColumn(db[ti], pkColumn) THEN SqlError(db, "no such column")
        ELSE LET tbl == db[ti]
                 pk == ColumnNamed(tbl, pkColumn)
                 rows == SelectSeq(tbl.rows,
                            LAMBDA row : ~(pkValue # Null /\ row[pk] = pkValue))
             IN  CheckWrite(db, fkOn, ti, rows)

\* The text "${name}" of a statement as the tokenizer reads it. A quoted
\* identifier runs to the first '"' that is not doubled, so a '"' inside the
\* name ends the identifier early: [closed, codes, rest], the identifier's
\* code units and the code units left over before the template's own
\* closing quote is accounted for.
RECURSIVE ClosingQuote(_, _)
ClosingQuote(text, i) ==
    IF i > Len(text) THEN 0
    ELSE IF text[i] # 34 THEN ClosingQuote(text, i + 1)
    ELSE IF i < Len(text) /\ text[i + 1] = 34 THEN ClosingQuote(text, i + 2)
    ELSE i

Interpolated(name) ==
    LET text == Chars(name) \o <<34>>
        e == ClosingQuote(text, 1)
    IN  IF e = 0 THEN [closed |-> FALSE, codes |-> <<>>, rest |-> <<>>]
        ELSE [closed |-> TRUE, codes |-> SubSeq(text, 1, e - 1),
              rest |-> SubSeq(text, e + 1, Len(text))]

\* "--" opens a comment that runs to the end of the statement
IsComment(cs) == Len(cs) >= 2 /\ cs[1] = 45 /\ cs[2] = 45

\* the table a statement names by "${tableName}": the declared name of the
\* table the identifier resolves to, tableName itself when it resolves to none
NamedTable(db, tableName) ==
    LET id == Interpolated(tableName)
        hits == {i \in 1..Len(db) :
                    ToUpperCase(Chars(db[i].name)) = ToUpperCase(id.codes)}
    IN  IF hits = {} THEN tableName ELSE db[CHOOSE i \in hits : TRUE].name

\* whether the statement still parses around "${tableName}": nothing is left
\* over, or, when the name ends the statement (tail = FALSE), a comment is
NameParses(tableName, tail) ==
    LET id == Interpolated(tableName)
    IN  id.closed /\ (id.rest = <<>> \/ (~tail /\ IsComment(id.rest)))

\* SELECT * FROM "tableName": [ok, rows, error]
SqlSelectAll(db, tableName) ==
    LET ti == TableIndex(db, tableName)
    IN  IF ti = 0 THEN [ok |-> FALSE, rows |-> <<>>, error |-> "no such table"]
        ELSE [ok |-> TRUE, rows |-> db[ti].rows, error |-> ""]

\* PRAGMA table_info("tableName"): the columns, none for an unknown table
SqlTableInfo(db, tableName) ==
    LET ti == TableIndex(db, tableName)
    IN  IF ti = 0 THEN <<>> ELSE db[ti].cols

\* SELECT name FROM sqlite_master WHERE type='table'
\*   AND name NOT LIKE 'sqlite_%' AND name != '_schema_hash'
SqlListTables(db) ==
    SelectSeq([i \in 1..Len(db) |-> db[i].name],
              LAMBDA n : ~LikeSqlite(n) /\ n # "_schema_hash")

\* SELECT hash FROM _schema_hash LIMIT 1: [ok, row], row <<>> when undefined
SqlSelectHash(db) ==
    LET ti == TableIndex(db, "_schema_hash")
    IN  IF ti = 0 \/ ~HasColumn(db[ti], "hash") THEN [ok |-> FALSE, row |-> <<>>]
        ELSE IF db[ti].rows = <<>> THEN [ok |-> TRUE, row |-> <<>>]
        ELSE [ok |-> TRUE, row |-> <<db[ti].rows[1][ColumnNamed(db[ti], "hash")]>>]

(* ------------------------------- state -------------------------------- *)

\* "x/../sandbox-d1": an identity a request may carry that is no diagram of
\* the store
DTraversal == << <<"x">>, <<"..">>, <<"sandbox-", "d1">> >>

\* the diagram identities requests carry
RequestIds == StoreDiagrams \cup {DTraversal}

Paths == {getSandboxPath(d) : d \in RequestIds}

\* the request handlers that may be in flight
Procs == {"p1"}

\* the request handlers of the server when two requests overlap
Handlers == {"p1", "p2"}

\* inode numbers of the sandbox directory's files; 0 is no file
Inodes == 1..(Cardinality(Paths) + Cardinality(Handlers))

VARIABLES
    diagrams,   \* logical store: the identities of the diagrams table
    ver,        \* logical store: the schema snapshot of each diagram
    dir,        \* sandbox directory: path -> inode, 0 when absent
    inode,      \* inode -> database file content
    pc,         \* each handler's position
    loc,        \* each handler's local variables
    last        \* the operation that ended last, and its result

vars == <<diagrams, ver, dir, inode, pc, loc, last>>

NoStatus == [exists |-> FALSE, isStale |-> FALSE, tableCount |-> 0, schemaHash |-> <<>>]

NoRequest == [table |-> "", pkColumn |-> "", pkValue |-> Null, keys |-> <<>>, values |-> <<>>]

NoSnapshot == [dir |-> [p \in Paths |-> 0], inode |-> [i \in Inodes |-> EmptyDb]]

IdleLoc ==
    [op |-> "none", d |-> D1,
     fetchedTables |-> <<>>, allColumns |-> <<>>, fetchedRelations |-> <<>>,
     hTables |-> <<>>, hColumns |-> <<>>, schemaHash |-> <<>>,
     sandboxDb |-> 0, tableRows |-> <<>>, hashRow |-> <<>>,
     sortedTables |-> <<>>, sql |-> <<>>,
     pre |-> NoSnapshot]

\* The result of the operation that ended last:
\*   op, d, req  the operation ("none" while one is in flight), its diagram
\*               identity and its request
\*   outcome     "ok" (a result, success), "fail" (a result, failure with
\*               error) or "throw" (an exception left the handler)
\*   status      the SandboxStatus getSandboxStatus returned
\*   fault       the failure injected into it, if any
\*   existed     whether its sandbox file existed when it began
\*   changed     the paths whose file it created, deleted or modified
\*   open        the connections it opened and had not closed when it ended
NoOp ==
    [op |-> "none", d |-> D1, req |-> NoRequest, outcome |-> "none", error |-> "",
     status |-> NoStatus, fault |-> "none", existed |-> FALSE, changed |-> {},
     open |-> 0]

AllIdle == \A p \in DOMAIN pc : pc[p] = "idle"

Init ==
    /\ diagrams = StoreDiagrams
    /\ ver = [d \in StoreDiagrams |-> IF d = D1 THEN "empty" ELSE "single"]
    /\ dir = [p \in Paths |-> 0]
    /\ inode = [i \in Inodes |-> EmptyDb]
    /\ pc = [p \in Procs |-> "idle"]
    /\ loc = [p \in Procs |-> IdleLoc]
    /\ last = NoOp

(* ----------------------------- file system ---------------------------- *)

Snapshot == [dir |-> dir, inode |-> inode]

\* fs.existsSync
existsSync(d, path) == d[path] # 0

\* the file at a path of a snapshot: <<>> when absent, else <<content>>
FileAt(snap, path) ==
    IF snap.dir[path] = 0 THEN <<>> ELSE <<snap.inode[snap.dir[path]]>>

\* the paths whose file differs between two snapshots
ChangedPaths(before, after) ==
    {path \in Paths : FileAt(before, path) # FileAt(after, path)}

\* the inodes the connections of the handlers in flight hold open
Held(l) == {l[p].sandboxDb : p \in DOMAIN l} \ {0}

\* an inode no path names and no connection holds is gone
Collect(d, ino, held) ==
    [i \in Inodes |-> IF (\E p \in Paths : d[p] = i) \/ i \in held
                      THEN ino[i] ELSE EmptyDb]

FreeInode(d, held) ==
    CHOOSE i \in Inodes :
        /\ ~(\E p \in Paths : d[p] = i) /\ i \notin held
        /\ \A j \in Inodes : (~(\E p \in Paths : d[p] = j) /\ j \notin held) => i <= j

\* UnlinkIfExists without the unlink
UnlinkNever(d, path) == d

\* fs.unlinkSync behind fs.existsSync
UnlinkIfExists(d, path) == IF existsSync(d, path) THEN [d EXCEPT ![path] = 0] ELSE d

\* the record of an operation on diagramId that began in snapshot pre and
\* ends now, leaving snapshot post
Ended(op, diagramId, pre, post, rec) ==
    [rec EXCEPT !.op = op, !.d = diagramId,
                !.existed = existsSync(pre.dir, getSandboxPath(diagramId)),
                !.changed = ChangedPaths(pre, post)]

(* ----------------------------- connections --------------------------- *)

\* The failures the environment may inject into one step of a handler:
\*   "open"    new Database(path) throws
\*   "pragma"  configuring the opened connection throws
\*   "exec"    the engine fails a statement for a reason outside the schema
\*   "store"   a query of the logical store rejects
Faults == {"none", "open", "pragma", "exec", "store"}

\* new Database(path): opens the file, creating it empty when absent:
\* [dir, inode, ino]
NewDatabase(snap, held, dbPath) ==
    IF existsSync(snap.dir, dbPath)
    THEN [dir |-> snap.dir, inode |-> snap.inode, ino |-> snap.dir[dbPath]]
    ELSE LET i == FreeInode(snap.dir, held)
         IN  [dir |-> [snap.dir EXCEPT ![dbPath] = i],
              inode |-> [snap.inode EXCEPT ![i] = EmptyDb], ino |-> i]

\* getSandboxDb without the existsSync test: the open creates the file
getSandboxDbCreating(snap, held, diagramId, fault) ==
    LET sandboxDb == NewDatabase(snap, held, getSandboxPath(diagramId))
    IN  [kind |-> "db", ino |-> sandboxDb.ino, fk |-> TRUE, open |-> 1,
         dir |-> sandboxDb.dir, inode |-> sandboxDb.inode]

\* getSandboxDb without the foreign_keys pragma: the engine's default, off
getSandboxDbNoPragma(snap, held, diagramId, fault) ==
    LET dbPath == getSandboxPath(diagramId)
        sandboxDb == NewDatabase(snap, held, dbPath)
    IN  IF ~existsSync(snap.dir, dbPath)
        THEN [kind |-> "null", ino |-> 0, fk |-> FALSE, open |-> 0,
              dir |-> snap.dir, inode |-> snap.inode]
        ELSE [kind |-> "db", ino |-> sandboxDb.ino, fk |-> FALSE, open |-> 1,
              dir |-> sandboxDb.dir, inode |-> sandboxDb.inode]

\* getSandboxDb: [kind, ino, fk, open, dir, inode]:
\*   kind "null"   no file, null is returned
\*        "throw"  the open or the pragma threw
\*        "db"     a connection to inode ino with foreign keys enforced
\*   open          the connections it opened that are open when it returns
\*                 or throws: the pragma throws with the connection open
\*   dir, inode    the sandbox directory afterwards
getSandboxDb(snap, held, diagramId, fault) ==
    LET dbPath == getSandboxPath(diagramId)
        none == [kind |-> "null", ino |-> 0, fk |-> FALSE, open |-> 0,
                 dir |-> snap.dir, inode |-> snap.inode]
    IN  IF ~existsSync(snap.dir, dbPath) THEN none
        ELSE IF fault = "open" THEN [none EXCEPT !.kind = "throw"]
        ELSE LET sandboxDb == NewDatabase(snap, held, dbPath)
             IN  IF fault = "pragma"
                 THEN [none EXCEPT !.kind = "throw", !.open = 1,
                                   !.dir = sandboxDb.dir, !.inode = sandboxDb.inode]
                 ELSE [kind |-> "db", ino |-> sandboxDb.ino, fk |-> TRUE, open |-> 1,
                       dir |-> sandboxDb.dir, inode |-> sandboxDb.inode]

(* -------------------------- logical schema edits ---------------------- *)

\* the editor replaces the logical schema of a diagram; its writes go to the
\* store whatever handler is suspended
EditCall(d, v) ==
    /\ d \in diagrams
    /\ v # ver[d]
    /\ ver' = [ver EXCEPT ![d] = v]
    /\ last' = Ended("edit", d, Snapshot, Snapshot, NoOp)
    /\ UNCHANGED <<diagrams, dir, inode, pc, loc>>

\* an edit made when no call is in flight
EditSchema(d, v) == AllIdle /\ EditCall(d, v)

\* the dashboard's "delete" intent: the diagram's row goes, and its tables
\* go with it or stay, as the store's foreign keys are enforced or not
DeleteDiagram(d) ==
    /\ AllIdle
    /\ d \in diagrams
    /\ diagrams' = diagrams \ {d}
    /\ \E v \in {ver[d], "empty"} : ver' = [ver EXCEPT ![d] = v]
    /\ last' = Ended("edit", d, Snapshot, Snapshot, NoOp)
    /\ UNCHANGED <<dir, inode, pc, loc>>

(* ------------------------------ teardown ------------------------------ *)

\* deleteSandbox
deleteSandbox(diagramId) ==
    /\ AllIdle
    /\ LET dbPath == getSandboxPath(diagramId)
           dir1 == UnlinkIfExists(dir, dbPath)
           inode1 == Collect(dir1, inode, Held(loc))
       IN  /\ dir' = dir1
           /\ inode' = inode1
           /\ last' = Ended("teardown", diagramId, Snapshot,
                            [dir |-> dir1, inode |-> inode1],
                            [NoOp EXCEPT !.outcome = "ok"])
    /\ UNCHANGED <<diagrams, ver, pc, loc>>

(* ---------------------------- CRUD gateway ---------------------------- *)

Request(table, pkColumn, pkValue, keys, values) ==
    [table |-> table, pkColumn |-> pkColumn, pkValue |-> pkValue,
     keys |-> keys, values |-> values]

\* a table name that is no identifier: users"--
QuoteName == "users\"--"

ListRequests ==
    {Request("users", "", Null, <<>>, <<>>), Request(QuoteName, "", Null, <<>>, <<>>)}

InsertRequests ==
    { Request("posts", "", Null, <<"id", "author_id">>, <<IntV(n), IntV(999)>>) :
        n \in 1..MaxPostId }
    \cup
    { Request("users", "", Null, <<"id", "name">>, <<IntV(999), TextV(<<"a">>)>>),
      Request("nosuch", "", Null, <<"id">>, <<IntV(1)>>) }

UpdateRequests ==
    { Request("users", "id", IntV(999), <<"name">>, <<TextV(<<"b">>)>>),
      Request("nosuch", "id", IntV(1), <<"name">>, <<TextV(<<"b">>)>>) }

DeleteRequests ==
    { Request("users", "id", IntV(999), <<>>, <<>>),
      Request("nosuch", "id", IntV(1), <<>>, <<>>) }

DescribeRequests == {Request("users", "", Null, <<>>, <<>>)}

\* the statement of each CRUD operation on an open connection: [ok, db, error]
\* The table name is interpolated between double quotes as it came with
\* the request; the values are bound.
RunStatement(op, db, fk, req) ==
    LET table == NamedTable(db, req.table)
    IN  IF ~NameParses(req.table, op # "list") THEN SqlError(db, "syntax error")
        ELSE CASE op = "list" ->
                LET r == SqlSelectAll(db, table)
                IN  [ok |-> r.ok, db |-> db, error |-> r.error]
          [] op = "describe" ->
                \* PRAGMA table_info answers for an unknown table too, with no row
                [ok |-> Len(SqlTableInfo(db, table)) >= 0, db |-> db, error |-> ""]
          [] op = "insert" -> SqlInsert(db, fk, table, req.keys, req.values)
          [] op = "update" -> SqlUpdate(db, fk, table, req.pkColumn, req.pkValue,
                                        req.keys, req.values)
          [] op = "delete" -> SqlDelete(db, fk, table, req.pkColumn, req.pkValue)

\* getRows, insertRow, updateRow, deleteRow, getTableInfo: open, one
\* statement, close; the method has no await and runs in one step, whatever
\* handler is suspended
CrudCall(op, diagramId, req) ==
    /\ LET sandboxDb == getSandboxDb(Snapshot, Held(loc), diagramId, "none")
           r == IF sandboxDb.kind = "db"
                THEN RunStatement(op, sandboxDb.inode[sandboxDb.ino], sandboxDb.fk, req)
                ELSE [ok |-> FALSE, db |-> EmptyDb, error |-> "Sandbox not initialized"]
           inode1 == IF sandboxDb.kind = "db"
                     THEN [sandboxDb.inode EXCEPT ![sandboxDb.ino] = r.db]
                     ELSE sandboxDb.inode
       IN  /\ dir' = sandboxDb.dir
           /\ inode' = inode1
           /\ last' = Ended(op, diagramId, Snapshot,
                            [dir |-> sandboxDb.dir, inode |-> inode1],
                            [NoOp EXCEPT !.req = req,
                                         !.outcome = IF r.ok THEN "ok" ELSE "fail",
                                         !.error = r.error,
                                         \* sandboxDb.close() in the try and
                                         \* in the catch
                                         !.open = IF sandboxDb.kind = "db"
                                                  THEN sandboxDb.open - 1
                                                  ELSE sandboxDb.open])
    /\ UNCHANGED <<diagrams, ver, pc, loc>>

\* a CRUD call the caller makes when no other call is in flight
Crud(op, diagramId, req) == AllIdle /\ CrudCall(op, diagramId, req)

getRows(diagramId, req) == Crud("list", diagramId, req)

insertRow(diagramId, req) == Crud("insert", diagramId, req)

updateRow(diagramId, req) == Crud("update", diagramId, req)

deleteRow(diagramId, req) == Crud("delete", diagramId, req)

getTableInfo(diagramId, req) == Crud("describe", diagramId, req)

(* ------------------------- handlers in several steps ------------------ *)

\* the handler p returns; dir2 and inode2 are the sandbox directory it leaves
Return(p, op, d, pre, dir2, inode2, rec) ==
    LET inode3 == Collect(dir2, inode2, Held([loc EXCEPT ![p] = IdleLoc]))
    IN  /\ pc' = [pc EXCEPT ![p] = "idle"]
        /\ loc' = [loc EXCEPT ![p] = IdleLoc]
        /\ dir' = dir2
        /\ inode' = inode3
        /\ last' = Ended(op, d, pre, [dir |-> dir2, inode |-> inode3], rec)

\* the handler p goes on to its next await
Goto(p, step, newLoc, dir2, inode2) ==
    /\ pc' = [pc EXCEPT ![p] = step]
    /\ loc' = [loc EXCEPT ![p] = newLoc]
    /\ dir' = dir2
    /\ inode' = Collect(dir2, inode2, Held([loc EXCEPT ![p] = newLoc]))
    /\ last' = NoOp

\* getSandboxStatus, the catch block: close, report stale
StatusCatch(p, d, pre, fault) ==
    Return(p, "status", d, pre, dir, inode,
           [NoOp EXCEPT !.outcome = "ok", !.fault = fault,
                        !.status = [NoStatus EXCEPT !.exists = TRUE, !.isStale = TRUE]])

\* initializeSandbox, the catch block: close, delete the file if one exists
\* at the path, report the failure
RebuildCatch(p, d, pre, dir2, inode2, error, fault) ==
    Return(p, "rebuild", d, pre, UnlinkIfExists(dir2, getSandboxPath(d)), inode2,
           [NoOp EXCEPT !.outcome = "fail", !.error = error, !.fault = fault])

\* getSandboxStatus up to its await of calculateSchemaHash
StatusStart(p, diagramId, fault) ==
    /\ AllIdle
    /\ LET dbPath == getSandboxPath(diagramId)
           sandboxDb == getSandboxDb(Snapshot, Held(loc), diagramId, fault)
       IN  IF ~existsSync(dir, dbPath) \/ sandboxDb.kind = "null"
           THEN Return(p, "status", diagramId, Snapshot, sandboxDb.dir, sandboxDb.inode,
                       [NoOp EXCEPT !.outcome = "ok"])
           ELSE IF sandboxDb.kind = "throw"
           THEN Return(p, "status", diagramId, Snapshot, sandboxDb.dir, sandboxDb.inode,
                       [NoOp EXCEPT !.outcome = "throw", !.fault = fault,
                                    !.open = sandboxDb.open])
           ELSE LET db == sandboxDb.inode[sandboxDb.ino]
                    hashRow == SqlSelectHash(db)
                IN  IF fault = "exec" \/ ~hashRow.ok
                    THEN StatusCatch(p, diagramId, Snapshot,
                                     IF fault = "exec" THEN fault ELSE "none")
                    ELSE Goto(p, "hash_tables",
                              [IdleLoc EXCEPT !.op = "status", !.d = diagramId,
                                              !.sandboxDb = sandboxDb.ino,
                                              !.tableRows = SqlListTables(db),
                                              !.hashRow = hashRow.row,
                                              !.pre = Snapshot],
                              sandboxDb.dir, sandboxDb.inode)
    /\ UNCHANGED <<diagrams, ver>>

\* a rejected store query inside calculateSchemaHash lands in the caller's catch
HashRejected(p) ==
    IF loc[p].op = "status"
    THEN StatusCatch(p, loc[p].d, loc[p].pre, "store")
    ELSE RebuildCatch(p, loc[p].d, loc[p].pre, dir, inode, "store query failed", "store")

\* calculateSchemaHash: const fetchedTables = await ...
HashTables(p, fault) ==
    /\ pc[p] = "hash_tables"
    /\ IF fault = "store" THEN HashRejected(p)
       ELSE Goto(p, "hash_columns",
                 [loc[p] EXCEPT !.hTables = SelectTables(ver, loc[p].d)], dir, inode)
    /\ UNCHANGED <<diagrams, ver>>

\* calculateSchemaHash: const allColumns = await ...
HashColumns(p, fault) ==
    /\ pc[p] = "hash_columns"
    /\ IF fault = "store" THEN HashRejected(p)
       ELSE Goto(p, "hash_relations",
                 [loc[p] EXCEPT !.hColumns = SelectColumns(ver)], dir, inode)
    /\ UNCHANGED <<diagrams, ver>>

\* calculateSchemaHash: const fetchedRelations = await ..., and the rest
HashRelations(p, fault) ==
    /\ pc[p] = "hash_relations"
    /\ IF fault = "store" THEN HashRejected(p)
       ELSE Goto(p, IF loc[p].op = "status" THEN "status_resume" ELSE "rebuild_resume",
                 [loc[p] EXCEPT !.hTables = <<>>, !.hColumns = <<>>,
                                !.schemaHash =
                                    schemaHashOf(loc[p].hTables, loc[p].hColumns,
                                                 SelectRelations(ver, loc[p].d))],
                 dir, inode)
    /\ UNCHANGED <<diagrams, ver>>

\* isStale that looks only for a missing metadata row
isStaleRowOnly(hashRow, currentHash) == hashRow = <<>>

\* hashRow?.hash !== currentHash
isStale(hashRow, currentHash) == hashRow = <<>> \/ hashRow[1] # TextV(currentHash)

\* getSandboxStatus after its await
StatusResume(p) ==
    /\ pc[p] = "status_resume"
    /\ Return(p, "status", loc[p].d, loc[p].pre, dir, inode,
              [NoOp EXCEPT !.outcome = "ok",
                           !.status = [exists |-> TRUE,
                                       isStale |-> isStale(loc[p].hashRow, loc[p].schemaHash),
                                       tableCount |-> Len(loc[p].tableRows),
                                       schemaHash |-> loc[p].hashRow]])
    /\ UNCHANGED <<diagrams, ver>>

(* ------------------------------- rebuild ------------------------------ *)

\* initializeSandbox: ensureSandboxDir(); const [diagram] = await ...
RebuildCall(p, diagramId) ==
    /\ pc[p] = "idle"
    /\ Goto(p, "rebuild_diagram",
            [IdleLoc EXCEPT !.op = "rebuild", !.d = diagramId, !.pre = Snapshot],
            dir, inode)
    /\ UNCHANGED <<diagrams, ver>>

\* a rebuild the caller starts when no other call is in flight
RebuildStart(p, diagramId) == AllIdle /\ RebuildCall(p, diagramId)

\* RebuildDiagram without the test for the diagram
RebuildDiagramUnchecked(p) ==
    /\ pc[p] = "rebuild_diagram"
    /\ Goto(p, "rebuild_tables", loc[p], dir, inode)
    /\ UNCHANGED <<diagrams, ver>>

\* if (!diagram) return not found; const fetchedTables = await ...
RebuildDiagram(p) ==
    /\ pc[p] = "rebuild_diagram"
    /\ IF loc[p].d \notin diagrams
       THEN Return(p, "rebuild", loc[p].d, loc[p].pre, dir, inode,
                   [NoOp EXCEPT !.outcome = "fail", !.error = "Diagram not found"])
       ELSE Goto(p, "rebuild_tables", loc[p], dir, inode)
    /\ UNCHANGED <<diagrams, ver>>

RebuildTables(p) ==
    /\ pc[p] = "rebuild_tables"
    /\ Goto(p, "rebuild_columns",
            [loc[p] EXCEPT !.fetchedTables = SelectTables(ver, loc[p].d)], dir, inode)
    /\ UNCHANGED <<diagrams, ver>>

RebuildColumns(p) ==
    /\ pc[p] = "rebuild_columns"
    /\ Goto(p, "rebuild_relations",
            [loc[p] EXCEPT !.allColumns = SelectColumns(ver)], dir, inode)
    /\ UNCHANGED <<diagrams, ver>>

\* the relations arrive; then, without another await: the old file is
\* deleted, the new database is opened and configured, the metadata table is
\* created and calculateSchemaHash is entered
RebuildRelations(p, fault) ==
    /\ pc[p] = "rebuild_relations"
    /\ LET d == loc[p].d
           dbPath == getSandboxPath(d)
           dir1 == UnlinkIfExists(dir, dbPath)
           held1 == Held(loc)
           sandboxDb == NewDatabase([dir |-> dir1, inode |-> Collect(dir1, inode, held1)],
                                    held1, dbPath)
           created == SqlCreateTable(sandboxDb.inode[sandboxDb.ino], SchemaHashTableStmt)
       IN  IF fault = "open"
           THEN Return(p, "rebuild", d, loc[p].pre, dir1, inode,
                       [NoOp EXCEPT !.outcome = "throw", !.fault = fault])
           ELSE IF fault = "pragma"
           \* the pragma is before the try: no close on this path
           THEN Return(p, "rebuild", d, loc[p].pre, sandboxDb.dir, sandboxDb.inode,
                       [NoOp EXCEPT !.outcome = "throw", !.fault = fault, !.open = 1])
           ELSE IF fault = "exec" \/ ~created.ok
           THEN RebuildCatch(p, d, loc[p].pre, sandboxDb.dir, sandboxDb.inode,
                             IF fault = "exec" THEN "disk I/O error" ELSE created.error,
                             IF fault = "exec" THEN fault ELSE "none")
           ELSE Goto(p, "hash_tables",
                     [loc[p] EXCEPT
                         !.fetchedRelations = SelectRelations(ver, d),
                         !.sandboxDb = sandboxDb.ino],
                     sandboxDb.dir,
                     [sandboxDb.inode EXCEPT ![sandboxDb.ino] = created.db])
    /\ UNCHANGED <<diagrams, ver>>

\* for (const table of sortedTables) sandboxDb.exec(sql), to the first failure
RECURSIVE CreateTables(_, _, _)
CreateTables(db, stmts, i) ==
    IF i > Len(stmts) THEN SqlOk(db)
    ELSE LET r == SqlCreateTable(db, stmts[i])
         IN  IF r.ok THEN CreateTables(r.db, stmts, i + 1) ELSE r

\* the statements of the rebuild, in the order of the dependency sorter
RebuildStatements(fetchedTables, allColumns, fetchedRelations) ==
    LET tableColumns == ColumnsOfTables(allColumns, fetchedTables)
        sortedTables == sortTablesByDependency(fetchedTables, fetchedRelations)
    IN  [i \in 1..Len(sortedTables) |->
            generateCreateTableSql(
                sortedTables[i],
                SelectSeq(tableColumns, LAMBDA c : c.tableId = sortedTables[i].id),
                fetchedRelations, fetchedTables, tableColumns)]

\* InsertHash that stores no row
InsertNoHash(db, schemaHash) == SqlOk(db)

\* INSERT INTO _schema_hash (hash) VALUES (?)
InsertHash(db, schemaHash) ==
    SqlInsert(db, TRUE, "_schema_hash", <<"hash">>, <<TextV(schemaHash)>>)

\* RebuildResume that returns success at once, with no fingerprint row and
\* no table
RebuildResumeEarly(p, fault) ==
    /\ pc[p] = "rebuild_resume"
    /\ Return(p, "rebuild", loc[p].d, loc[p].pre, dir, inode,
              [NoOp EXCEPT !.outcome = "ok"])
    /\ UNCHANGED <<diagrams, ver>>

\* initializeSandbox after its await of calculateSchemaHash
RebuildResume(p, fault) ==
    /\ pc[p] = "rebuild_resume"
    /\ LET d == loc[p].d
           ino == loc[p].sandboxDb
           hashed == InsertHash(inode[ino], loc[p].schemaHash)
           built == CreateTables(hashed.db,
                                 RebuildStatements(loc[p].fetchedTables, loc[p].allColumns,
                                                   loc[p].fetchedRelations), 1)
       IN  IF fault = "exec"
           THEN RebuildCatch(p, d, loc[p].pre, dir, inode, "disk I/O error", fault)
           ELSE IF ~hashed.ok
           THEN RebuildCatch(p, d, loc[p].pre, dir, inode, hashed.error, "none")
           ELSE IF ~built.ok
           THEN RebuildCatch(p, d, loc[p].pre, dir, [inode EXCEPT ![ino] = built.db],
                             built.error, "none")
           ELSE Return(p, "rebuild", d, loc[p].pre, dir, [inode EXCEPT ![ino] = built.db],
                       [NoOp EXCEPT !.outcome = "ok"])
    /\ UNCHANGED <<diagrams, ver>>

(* ---------------------------- specification --------------------------- *)

\* the sandbox lifecycle: schema edits, status, rebuild and teardown, with
\* the failures the environment may inject
Next ==
    \/ \E d \in StoreDiagrams : \E v \in Versions(d) : EditSchema(d, v)
    \/ \E d \in StoreDiagrams : DeleteDiagram(d)
    \/ \E d \in RequestIds : deleteSandbox(d)
    \/ \E p \in Procs :
        \/ \E d \in RequestIds, f \in {"none", "open", "pragma", "exec"} :
                StatusStart(p, d, f)
        \/ \E f \in {"none", "store"} : HashTables(p, f)
        \/ \E f \in {"none", "store"} : HashColumns(p, f)
        \/ \E f \in {"none", "store"} : HashRelations(p, f)
        \/ StatusResume(p)
        \/ \E d \in RequestIds : RebuildStart(p, d)
        \/ RebuildDiagram(p)
        \/ RebuildTables(p)
        \/ RebuildColumns(p)
        \/ \E f \in {"none", "open", "pragma", "exec"} : RebuildRelations(p, f)
        \/ \E f \in {"none", "exec"} : RebuildResume(p, f)

Spec == Init /\ [][Next]_vars

\* the CRUD gateway over the sandboxes that fault-free rebuilds and
\* teardowns leave: D1 is edited, rebuilt and torn down, D2 is never built
CrudIds == {D1, D2}

NextCrud ==
    \/ \E v \in Versions(D1) : EditSchema(D1, v)
    \/ deleteSandbox(D1)
    \/ \E d \in CrudIds :
        \/ \E req \in ListRequests : getRows(d, req)
        \/ \E req \in InsertRequests : insertRow(d, req)
        \/ \E req \in UpdateRequests : updateRow(d, req)
        \/ \E req \in DeleteRequests : deleteRow(d, req)
        \/ \E req \in DescribeRequests : getTableInfo(d, req)
    \/ \E p \in Procs :
        \/ HashTables(p, "none")
        \/ HashColumns(p, "none")
        \/ HashRelations(p, "none")
        \/ RebuildStart(p, D1)
        \/ RebuildDiagram(p)
        \/ RebuildTables(p)
        \/ RebuildColumns(p)
        \/ RebuildRelations(p, "none")
        \/ RebuildResume(p, "none")

SpecCrud == Init /\ [][NextCrud]_vars

\* rebuild and status without failures, over the schemas of both diagrams,
\* among them one with a table whose name begins with "sqlite"
NamedVersions(d) == IF d = D2 THEN Versions(d) \cup {"lite"} ELSE Versions(d)

NextNamed ==
    \/ \E d \in StoreDiagrams : \E v \in NamedVersions(d) : EditSchema(d, v)
    \/ \E p \in Procs :
        \/ \E d \in StoreDiagrams : StatusStart(p, d, "none")
        \/ HashTables(p, "none")
        \/ HashColumns(p, "none")
        \/ HashRelations(p, "none")
        \/ StatusResume(p)
        \/ \E d \in StoreDiagrams : RebuildStart(p, d)
        \/ RebuildDiagram(p)
        \/ RebuildTables(p)
        \/ RebuildColumns(p)
        \/ RebuildRelations(p, "none")
        \/ RebuildResume(p, "none")

SpecNamed == Init /\ [][NextNamed]_vars

\* a rebuild of D1 without failures, and list and insert calls on D1 that
\* the caller makes at any time, also while the rebuild is suspended
NextRace ==
    \/ \E v \in Versions(D1) : EditSchema(D1, v)
    \/ deleteSandbox(D1)
    \/ \E req \in ListRequests : CrudCall("list", D1, req)
    \/ \E req \in InsertRequests : CrudCall("insert", D1, req)
    \/ \E p \in Procs :
        \/ RebuildStart(p, D1)
        \/ RebuildDiagram(p)
        \/ RebuildTables(p)
        \/ RebuildColumns(p)
        \/ RebuildRelations(p, "none")
        \/ HashTables(p, "none")
        \/ HashColumns(p, "none")
        \/ HashRelations(p, "none")
        \/ RebuildResume(p, "none")

SpecRace == Init /\ [][NextRace]_vars

\* rebuild and status of D1 without failures, and edits of its logical
\* schema at any time, also while the rebuild is suspended
NextEdit ==
    \/ \E v \in Versions(D1) : EditCall(D1, v)
    \/ \E p \in Procs :
        \/ StatusStart(p, D1, "none")
        \/ StatusResume(p)
        \/ RebuildStart(p, D1)
        \/ RebuildDiagram(p)
        \/ RebuildTables(p)
        \/ RebuildColumns(p)
        \/ RebuildRelations(p, "none")
        \/ HashTables(p, "none")
        \/ HashColumns(p, "none")
        \/ HashRelations(p, "none")
        \/ RebuildResume(p, "none")

SpecEdit == Init /\ [][NextEdit]_vars

\* two request handlers, each running a rebuild of D1 without injected
\* failures, started at any time; the schema is edited when both are idle
InitHandlers ==
    /\ diagrams = StoreDiagrams
    /\ ver = [d \in StoreDiagrams |-> IF d = D1 THEN "empty" ELSE "single"]
    /\ dir = [p \in Paths |-> 0]
    /\ inode = [i \in Inodes |-> EmptyDb]
    /\ pc = [p \in Handlers |-> "idle"]
    /\ loc = [p \in Handlers |-> IdleLoc]
    /\ last = NoOp

NextHandlers ==
    \/ \E v \in Versions(D1) : EditSchema(D1, v)
    \/ \E p \in Handlers :
        \/ RebuildCall(p, D1)
        \/ RebuildDiagram(p)
        \/ RebuildTables(p)
        \/ RebuildColumns(p)
        \/ RebuildRelations(p, "none")
        \/ HashTables(p, "none")
        \/ HashColumns(p, "none")
        \/ HashRelations(p, "none")
        \/ RebuildResume(p, "none")

SpecHandlers == InitHandlers /\ [][NextHandlers]_vars

(* ------------------- the fingerprint as a function -------------------- *)

\* the orders in which a query without ORDER BY may return its rows
Orderings(rows) ==
    LET n == Len(rows)
        perms == {f \in [1..n -> 1..n] : \A i, j \in 1..n : f[i] = f[j] => i = j}
    IN  {[i \in 1..n |-> rows[f[i]]] : f \in perms}

\* A logical schema for the fingerprint: users(id, name), posts(id,
\* author_id), and three relations, two of them from posts.author_id
FpTables == <<UsersTable, PostsTable>>

FpColumns ==
    << Column("c1", "t1", "id", "INT", TRUE, FALSE, <<>>),
       Column("c2", "t1", "name", "TEXT", FALSE, TRUE, <<"Aa">>),
       Column("c3", "t2", "id", "INT", TRUE, FALSE, <<>>),
       Column("c4", "t2", "author_id", "INT", FALSE, TRUE, <<>>) >>

FpRelations ==
    << Relation(D1, "t2", "c3", "t1", "c1"),
       Relation(D1, "t2", "c4", "t1", "c1"),
       Relation(D1, "t2", "c4", "t1", "c2") >>

\* the values an edit may give one attribute of a column or of a relation
FpTypes == {"INT", "TEXT", "VARCHAR"}
FpDefaults == {<<>>, <<"Aa">>, <<"BB">>, <<"0">>}
FpTableIds == {"t1", "t2"}
FpColumnIds == {"c1", "c2", "c3", "c4"}

\* the column lists that differ from FpColumns in the type, the nullability
\* or the default of one column
ColumnEdits ==
    UNION {
        {[FpColumns EXCEPT ![i].type = ty] : ty \in FpTypes}
        \cup {[FpColumns EXCEPT ![i].isNullable = ~FpColumns[i].isNullable]}
        \cup {[FpColumns EXCEPT ![i].defaultValue = dv] : dv \in FpDefaults}
        : i \in 1..Len(FpColumns)} \ {FpColumns}

\* the relation lists that differ from FpRelations in one endpoint of one
\* relation
RelationEdits ==
    UNION {
        {[FpRelations EXCEPT ![k].fromTableId = t] : t \in FpTableIds}
        \cup {[FpRelations EXCEPT ![k].toTableId = t] : t \in FpTableIds}
        \cup {[FpRelations EXCEPT ![k].fromColumnId = c] : c \in FpColumnIds}
        \cup {[FpRelations EXCEPT ![k].toColumnId = c] : c \in FpColumnIds}
        : k \in 1..Len(FpRelations)} \ {FpRelations}

\* the query results calculateSchemaHash may be given: FpTables, FpColumns
\* and FpRelations in every order, and every edit of one attribute
FingerprintInputs ==
    {<<ts, cs, rs>> : ts \in Orderings(FpTables), cs \in Orderings(FpColumns),
                      rs \in Orderings(FpRelations)}
    \cup {<<FpTables, cs, FpRelations>> : cs \in ColumnEdits}
    \cup {<<FpTables, FpColumns, rs>> : rs \in RelationEdits}

InitFingerprint ==
    /\ diagrams = StoreDiagrams
    /\ ver = [d \in StoreDiagrams |-> "empty"]
    /\ dir = [p \in Paths |-> 0]
    /\ inode = [i \in Inodes |-> EmptyDb]
    /\ pc = [p \in Procs |-> "hash_input"]
    /\ \E in \in FingerprintInputs :
          loc = [p \in Procs |->
                    [IdleLoc EXCEPT !.op = "hash", !.hTables = in[1],
                                    !.hColumns = in[2], !.fetchedRelations = in[3]]]
    /\ last = NoOp

\* calculateSchemaHash after its three queries
HashOfFetched(p) ==
    /\ pc[p] = "hash_input"
    /\ pc' = [pc EXCEPT ![p] = "hash_output"]
    /\ loc' = [loc EXCEPT ![p].schemaHash =
                    schemaHashOf(loc[p].hTables, loc[p].hColumns,
                                 loc[p].fetchedRelations)]
    /\ UNCHANGED <<diagrams, ver, dir, inode, last>>

NextFingerprint == \E p \in Procs : HashOfFetched(p)

SpecFingerprint == InitFingerprint /\ [][NextFingerprint]_vars

(* ----------------------- the sorter as a function --------------------- *)

SorterTables == <<UsersTable, PostsTable, DraftsTable>>

\* the foreign keys three tables may have to one another: <<source, target>>
SorterEdges ==
    << <<"t1", "t2">>, <<"t1", "t3">>, <<"t2", "t1">>,
       <<"t2", "t3">>, <<"t3", "t1">>, <<"t3", "t2">> >>

\* the relation rows of a set of foreign keys
RelationsOf(edges) ==
    LET ks == SelectSeq([k \in 1..Len(SorterEdges) |-> k], LAMBDA k : k \in edges)
    IN  [i \in 1..Len(ks) |->
            Relation(D1, SorterEdges[ks[i]][1], "c4", SorterEdges[ks[i]][2], "c1")]

InitSorter ==
    /\ diagrams = StoreDiagrams
    /\ ver = [d \in StoreDiagrams |-> "empty"]
    /\ dir = [p \in Paths |-> 0]
    /\ inode = [i \in Inodes |-> EmptyDb]
    /\ pc = [p \in Procs |-> "sort_input"]
    /\ \E ts \in Orderings(SorterTables), edges \in SUBSET (1..Len(SorterEdges)) :
          loc = [p \in Procs |->
                    [IdleLoc EXCEPT !.op = "sort", !.fetchedTables = ts,
                                    !.fetchedRelations = RelationsOf(edges)]]
    /\ last = NoOp

\* const sortedTables = this.sortTablesByDependency(fetchedTables, fetchedRelations)
SortFetched(p) ==
    /\ pc[p] = "sort_input"
    /\ pc' = [pc EXCEPT ![p] = "sort_output"]
    /\ loc' = [loc EXCEPT ![p].sortedTables =
                    sortTablesByDependency(loc[p].fetchedTables, loc[p].fetchedRelations)]
    /\ UNCHANGED <<diagrams, ver, dir, inode, last>>

NextSorter == \E p \in Procs : SortFetched(p)

SpecSorter == InitSorter /\ [][NextSorter]_vars

(* ------------------ the DDL synthesizer as a function ----------------- *)

\* the logical types and the defaults a column of the editor may carry
DdlTypes ==
    {"INT", "INTEGER", "BIGINT", "BOOLEAN", "BOOL", "FLOAT", "DECIMAL", "REAL",
     "DOUBLE", "NUMERIC", "TEXT", "VARCHAR", "CHAR", "UUID", "DATE", "TIME", "JSON"}

DdlDefaults ==
    {<<>>, <<"">>, <<"0">>, <<"1">>, <<"a">>, <<"true">>, <<"false">>,
     <<"uuid()">>, <<"now()">>, <<"NULL">>, <<"null">>}

\* the relation rows a list may hold: two from posts whose ends resolve, one
\* from users, and three from posts with an end that is no row
DdlRelations ==
    { Relation(D1, "t2", "c4", "t1", "c1"),
      Relation(D1, "t2", "c3", "t1", "c2"),
      Relation(D1, "t1", "c2", "t2", "c3"),
      Relation(D1, "t2", "c9", "t1", "c1"),
      Relation(D1, "t2", "c4", "t9", "c1"),
      Relation(D1, "t2", "c4", "t1", "c9") }

\* the snapshots generateCreateTableSql may be given: one table with one
\* column of any type and default, or posts of the blog schema with any list
\* of relations
DdlInputs ==
    { [allTables |-> <<DraftsTable>>,
       allColumns |-> <<Column("c5", "t3", "title", ty, FALSE, TRUE, dv)>>,
       relationList |-> <<>>, table |-> DraftsTable] :
        ty \in DdlTypes, dv \in DdlDefaults }
    \cup
    { [allTables |-> <<UsersTable, PostsTable>>, allColumns |-> BlogColumns,
       relationList |-> rs, table |-> PostsTable] :
        rs \in UNION {[1..n -> DdlRelations] : n \in 0..MaxRelations} }

InitDdl ==
    /\ diagrams = StoreDiagrams
    /\ ver = [d \in StoreDiagrams |-> "empty"]
    /\ dir = [p \in Paths |-> 0]
    /\ inode = [i \in Inodes |-> EmptyDb]
    /\ pc = [p \in Procs |-> "ddl_input"]
    /\ \E in \in DdlInputs :
          loc = [p \in Procs |->
                    [IdleLoc EXCEPT !.op = "ddl", !.fetchedTables = in.allTables,
                                    !.allColumns = in.allColumns,
                                    !.fetchedRelations = in.relationList,
                                    !.sortedTables = <<in.table>>]]
    /\ last = NoOp

\* one round of the loop over sortedTables: cols and sql
GenerateSql(p) ==
    /\ pc[p] = "ddl_input"
    /\ pc' = [pc EXCEPT ![p] = "ddl_output"]
    /\ LET table == loc[p].sortedTables[1]
           tableColumns == ColumnsOfTables(loc[p].allColumns, loc[p].fetchedTables)
           cols == SelectSeq(tableColumns, LAMBDA c : c.tableId = table.id)
       IN  loc' = [loc EXCEPT ![p].sql =
                       <<generateCreateTableSql(table, cols, loc[p].fetchedRelations,
                                                loc[p].fetchedTables, tableColumns)>>]
    /\ UNCHANGED <<diagrams, ver, dir, inode, last>>

NextDdl == \E p \in Procs : GenerateSql(p)

SpecDdl == InitDdl /\ [][NextDdl]_vars

(* ------------------------------ properties ---------------------------- *)

\* the sandbox file of a diagram identity now: <<>> when absent, else <<db>>
SandboxFile(d) == FileAt(Snapshot, getSandboxPath(d))

\* the fingerprint of the logical schema of a diagram identity now
CurrentHash(d) ==
    schemaHashOf(SelectTables(ver, d), SelectColumns(ver), SelectRelations(ver, d))

\* the sandbox of a diagram identity exists and stores the current fingerprint
Fresh(d) ==
    /\ SandboxFile(d) # <<>>
    /\ SqlSelectHash(SandboxFile(d)[1]).ok
    /\ SqlSelectHash(SandboxFile(d)[1]).row = <<TextV(CurrentHash(d))>>

CrudOps == {"list", "insert", "update", "delete", "describe"}

\* C1: a rebuild of an existing diagram that does not succeed returns a
\* failure result and leaves no sandbox file.
RebuildFailureRollsBack ==
    (last.op = "rebuild" /\ last.d \in diagrams /\ last.outcome # "ok") =>
        /\ last.outcome = "fail"
        /\ SandboxFile(last.d) = <<>>

\* C2: after a successful rebuild the sandbox exists and its stored
\* fingerprint is the fingerprint of the logical schema, and a status call
\* that finds it so reports exists, not stale.
RebuildThenFresh ==
    /\ (last.op = "rebuild" /\ last.outcome = "ok") => Fresh(last.d)
    /\ (last.op = "status" /\ last.fault = "none" /\ Fresh(last.d)) =>
            /\ last.outcome = "ok"
            /\ last.status.exists
            /\ ~last.status.isStale

\* a rebuild of the blog schema over an existing sandbox succeeded, or a
\* status call found the blog sandbox fresh
RebuildThenFreshWitness ==
    /\ last.d = D1 /\ ver[D1] = "blog"
    /\ last.op = "status" /\ last.fault = "none"
    /\ last.status.exists /\ ~last.status.isStale
    /\ last.status.tableCount = 2

\* C3: a status call never throws, and whenever the sandbox file exists a
\* failure inside it yields exists, stale.
StatusNeverThrows ==
    last.op = "status" =>
        /\ last.outcome = "ok"
        /\ (last.existed /\ last.fault # "none") =>
                last.status.exists /\ last.status.isStale

\* C4: status answers {exists false, stale false, 0 tables} exactly when
\* there is no sandbox file, and over a file with readable metadata it
\* answers stale exactly when the stored fingerprint is not the current one.
StatusReflectsFile ==
    (last.op = "status" /\ last.outcome = "ok") =>
        LET file == SandboxFile(last.d)
        IN  /\ (/\ ~last.status.exists
                /\ ~last.status.isStale
                /\ last.status.tableCount = 0) <=> (file = <<>>)
            /\ (file # <<>> /\ last.fault = "none" /\ SqlSelectHash(file[1]).ok) =>
                    /\ last.status.exists
                    /\ last.status.isStale <=>
                           (SqlSelectHash(file[1]).row # <<TextV(CurrentHash(last.d))>>)

\* a status call found a sandbox whose stored fingerprint is out of date
StatusReflectsFileWitness ==
    /\ last.op = "status" /\ last.outcome = "ok" /\ last.fault = "none"
    /\ SandboxFile(last.d) # <<>>
    /\ SqlSelectHash(SandboxFile(last.d)[1]).ok
    /\ SqlSelectHash(SandboxFile(last.d)[1]).row # <<>>
    /\ last.status.exists /\ last.status.isStale

\* C5: a rebuild for an identity that is not in the logical store fails with
\* "Diagram not found" and changes no sandbox file.
RebuildNotFoundKeepsFile ==
    (last.op = "rebuild" /\ last.d \notin diagrams) =>
        /\ last.outcome = "fail"
        /\ last.error = "Diagram not found"
        /\ last.changed = {}

\* a rebuild for a deleted diagram whose sandbox file exists was refused
RebuildNotFoundKeepsFileWitness ==
    /\ last.op = "rebuild" /\ last.d = D2 /\ D2 \notin diagrams
    /\ last.error = "Diagram not found"
    /\ last.existed
    /\ SandboxFile(D2) # <<>>

\* C6: a teardown ends without error with the sandbox absent, changes
\* nothing when the sandbox was already absent, and a status call over an
\* absent sandbox answers exists false.
TeardownIdempotent ==
    /\ last.op = "teardown" =>
            /\ last.outcome = "ok"
            /\ SandboxFile(last.d) = <<>>
            /\ ~last.existed => last.changed = {}
    /\ (last.op = "status" /\ ~last.existed) =>
            last.outcome = "ok" /\ ~last.status.exists

\* a teardown deleted an existing sandbox file
TeardownIdempotentWitness ==
    /\ last.op = "teardown" /\ last.existed
    /\ last.changed = {getSandboxPath(last.d)}
    /\ SandboxFile(last.d) = <<>>

\* C7: every CRUD operation on an absent sandbox fails with "Sandbox not
\* initialized" and creates no file.
CrudNeedsSandbox ==
    (last.op \in CrudOps /\ ~last.existed) =>
        /\ last.outcome = "fail"
        /\ last.error = "Sandbox not initialized"
        /\ SandboxFile(last.d) = <<>>
        /\ last.changed = {}

\* an insert was refused while the diagram had no sandbox
CrudNeedsSandboxWitness ==
    /\ last.op = "insert" /\ last.d = D1 /\ ver[D1] = "draft"
    /\ ~last.existed
    /\ last.error = "Sandbox not initialized"

\* C8: a CRUD operation that fails changes no sandbox file, and an insert,
\* update or delete that names a table the sandbox lacks fails with the
\* engine's message.
CrudFailureChangesNothing ==
    last.op \in CrudOps =>
        /\ last.outcome = "fail" => last.changed = {}
        /\ (/\ last.existed
            /\ last.op \in {"insert", "update", "delete"}
            /\ last.req.table = "nosuch") =>
                last.outcome = "fail" /\ last.error = "no such table"

\* an insert into a table the sandbox lacks failed over a sandbox with rows
CrudFailureChangesNothingWitness ==
    /\ last.op = "insert" /\ last.req.table = "nosuch"
    /\ last.outcome = "fail" /\ last.error = "no such table"
    /\ SandboxFile(last.d) # <<>>
    /\ \E ti \in 1..Len(SandboxFile(last.d)[1]) :
            /\ SandboxFile(last.d)[1][ti].name = "users"
            /\ SandboxFile(last.d)[1][ti].rows # <<>>

\* the row of a table of a sandbox file whose column c holds v
HasRow(file, table, c, v) ==
    /\ file # <<>>
    /\ TableIndex(file[1], table) # 0
    /\ \E ri \in 1..Len(file[1][TableIndex(file[1], table)].rows) :
            file[1][TableIndex(file[1], table)].rows[ri][c] = v

\* the sandbox file has the blog schema's posts table, with its foreign key
HasPostsFk(file) ==
    /\ file # <<>>
    /\ TableIndex(file[1], "posts") # 0
    /\ file[1][TableIndex(file[1], "posts")].fks # <<>>

\* C9: over a sandbox rebuilt from posts.author_id -> users.id, an insert
\* into posts fails and changes nothing while no users row has the id, and
\* succeeds once one has.
ForeignKeysEnforced ==
    [][ (/\ last'.op = "insert"
         /\ last'.req.table = "posts"
         /\ HasPostsFk(SandboxFile(last'.d))
         /\ ~HasRow(SandboxFile(last'.d), "posts", "id", last'.req.values[1]))
        =>
        IF HasRow(SandboxFile(last'.d), "users", "id", last'.req.values[2])
        THEN /\ last'.outcome = "ok"
             /\ HasRow(FileAt([dir |-> dir', inode |-> inode'], getSandboxPath(last'.d)),
                       "posts", "id", last'.req.values[1])
        ELSE /\ last'.outcome = "fail"
             /\ last'.error = "FOREIGN KEY constraint failed"
             /\ UNCHANGED <<dir, inode>>
      ]_vars

\* an insert into posts succeeded
ForeignKeysEnforcedWitness ==
    /\ last.op = "insert" /\ last.req.table = "posts" /\ last.outcome = "ok"
    /\ HasRow(SandboxFile(last.d), "users", "id", IntV(999))
    /\ HasRow(SandboxFile(last.d), "posts", "author_id", IntV(999))

\* C10: an operation issued for one diagram identity changes the sandbox
\* file of no other identity.
OtherSandboxesUntouched ==
    \A B \in RequestIds \ {last.d} : getSandboxPath(B) \notin last.changed
\* a name made of letters, digits and underscores only
PlainName(name) ==
    \A i \in 1..Len(Chars(name)) :
        LET c == Chars(name)[i]
        IN  \/ c >= 48 /\ c <= 57
            \/ c >= 65 /\ c <= 90
            \/ c >= 97 /\ c <= 122
            \/ c = 95

\* a table of the sandbox file of a diagram identity carries exactly this name
KnownTable(d, name) ==
    /\ SandboxFile(d) # <<>>
    /\ \E i \in 1..Len(SandboxFile(d)[1]) : SandboxFile(d)[1][i].name = name

\* C11: a CRUD statement runs only for a table name that is a plain
\* identifier or the name of a table of the sandbox; a name that is neither
\* never reaches a statement that succeeds.
NamesValidated ==
    (last.op \in CrudOps /\ last.outcome = "ok") =>
        PlainName(last.req.table) \/ KnownTable(last.d, last.req.table)

\* C12: an operation that has ended has closed every connection it opened,
\* on success and on every failure path; with no operation in flight no
\* connection is open.
ConnectionsClosed == last.op # "none" => last.open = 0

\* C13: the fingerprint of the tables, columns and relations of a schema is
\* the same in whatever order the three queries return their rows, also when
\* two relations have the same source column.
FingerprintOrderInvariant ==
    \A p \in Procs :
        (/\ pc[p] = "hash_output"
         /\ loc[p].hTables \in Orderings(FpTables)
         /\ loc[p].hColumns \in Orderings(FpColumns)
         /\ loc[p].fetchedRelations \in Orderings(FpRelations))
        => loc[p].schemaHash = schemaHashOf(FpTables, FpColumns, FpRelations)

\* C14: a schema that differs from another in the type, the nullability or
\* the default of one column, or in one endpoint of one relation, has a
\* different serialization and a different fingerprint.
FingerprintSensitive ==
    \A p \in Procs :
        (/\ pc[p] = "hash_output"
         /\ loc[p].hColumns \in ColumnEdits \/ loc[p].fetchedRelations \in RelationEdits)
        => /\ schemaStr(loc[p].hTables,
                        ColumnsOfTables(loc[p].hColumns, loc[p].hTables),
                        loc[p].fetchedRelations)
                # schemaStr(FpTables, ColumnsOfTables(FpColumns, FpTables), FpRelations)
           /\ loc[p].schemaHash # schemaHashOf(FpTables, FpColumns, FpRelations)

\* a table has a foreign key to another
Edge(rs, a, b) ==
    \E k \in 1..Len(rs) : rs[k].fromTableId = a /\ rs[k].toTableId = b

TableIdsOf(ts) == {ts[i].id : i \in 1..Len(ts)}

\* no table reaches itself along the foreign keys of three tables
Acyclic(ts, rs) ==
    \A a, b, c \in TableIdsOf(ts) :
        /\ ~Edge(rs, a, a)
        /\ ~(Edge(rs, a, b) /\ Edge(rs, b, a))
        /\ ~(Edge(rs, a, b) /\ Edge(rs, b, c) /\ Edge(rs, c, a))

\* no chain of foreign keys is longer than two hops
TwoHops(ts, rs) ==
    \A a, b, c, e \in TableIdsOf(ts) :
        ~(Edge(rs, a, b) /\ Edge(rs, b, c) /\ Edge(rs, c, e))

\* every table is a source only or a target only
TwoLevel(rs) ==
    \A i, j \in 1..Len(rs) : rs[i].fromTableId # rs[j].toTableId

PositionOf(ts, id) == CHOOSE i \in 1..Len(ts) : ts[i].id = id

\* the target of every relation stands at or before its source
TargetsFirst(sorted, rs) ==
    \A k \in 1..Len(rs) :
        PositionOf(sorted, rs[k].toTableId) <= PositionOf(sorted, rs[k].fromTableId)

\* C15: for every order of the tables and every two-level foreign-key graph
\* (each table a source only or a target only) the sorter returns every
\* table once, the target of each relation at or before its source.
SorterTwoLevel ==
    \A p \in Procs :
        (pc[p] = "sort_output" /\ TwoLevel(loc[p].fetchedRelations)) =>
            /\ loc[p].sortedTables \in Orderings(loc[p].fetchedTables)
            /\ TargetsFirst(loc[p].sortedTables, loc[p].fetchedRelations)

\* a two-level graph whose tables came with a source before its target
SorterTwoLevelWitness ==
    \E p \in Procs :
        /\ pc[p] = "sort_output"
        /\ loc[p].fetchedRelations # <<>>
        /\ TwoLevel(loc[p].fetchedRelations)
        /\ ~TargetsFirst(loc[p].fetchedTables, loc[p].fetchedRelations)
        /\ TargetsFirst(loc[p].sortedTables, loc[p].fetchedRelations)

\* C18: for every order of the tables and every acyclic foreign-key graph
\* whose chains are at most two hops long the sorter puts every referenced
\* table at or before every table that has a foreign key to it.
SorterTwoHops ==
    \A p \in Procs :
        (/\ pc[p] = "sort_output"
         /\ Acyclic(loc[p].fetchedTables, loc[p].fetchedRelations)
         /\ TwoHops(loc[p].fetchedTables, loc[p].fetchedRelations))
        => TargetsFirst(loc[p].sortedTables, loc[p].fetchedRelations)

\* C16: for a column whose default is not empty and is none of uuid(), now()
\* and NULL, the DEFAULT clause is emitted unquoted exactly when the type is
\* lowered to INTEGER or REAL, with 1 and 0 for true and false on the types
\* lowered to INTEGER, and quoted exactly when the type is lowered to TEXT.
DefaultFollowsLoweredType ==
    \A p \in Procs :
        (/\ pc[p] = "ddl_output"
         /\ loc[p].sortedTables = <<DraftsTable>>
         /\ loc[p].sql[1].cols[1].dflt.kind \in {"unquoted", "quoted"})
        => LET col == loc[p].allColumns[1]
               line == loc[p].sql[1].cols[1]
           IN  /\ line.dflt.kind = "unquoted" <=> line.type \in {"INTEGER", "REAL"}
               /\ line.dflt.kind = "quoted" <=> line.type = "TEXT"
               /\ (line.type = "INTEGER" /\ col.defaultValue = <<"true">>)
                    => line.dflt.text = Chars("1")
               /\ (line.type = "INTEGER" /\ col.defaultValue = <<"false">>)
                    => line.dflt.text = Chars("0")

\* the rows of a relation list that are foreign keys of a table with every
\* end found in the snapshots given
ResolvedOf(table, relationList, allTables, allColumns) ==
    SelectSeq(relationList, LAMBDA r :
        /\ r.fromTableId = table.id
        /\ \E i \in 1..Len(allColumns) : allColumns[i].id = r.fromColumnId
        /\ \E i \in 1..Len(allTables) : allTables[i].id = r.toTableId
        /\ \E i \in 1..Len(allColumns) : allColumns[i].id = r.toColumnId)

NameOfId(rows, id) == rows[CHOOSE i \in 1..Len(rows) : rows[i].id = id].name

\* C19: the CREATE TABLE statement of a table has one FOREIGN KEY clause for
\* each relation whose source table is that table and whose source column,
\* target table and target column are found in the snapshots, in the order of
\* the relation list; a relation with an end that is not found adds no clause,
\* and the statement is produced all the same.
ForeignKeyClauses ==
    \A p \in Procs :
        (pc[p] = "ddl_output" /\ loc[p].sortedTables = <<PostsTable>>) =>
            LET rs == ResolvedOf(PostsTable, loc[p].fetchedRelations,
                                 loc[p].fetchedTables, loc[p].allColumns)
                sql == loc[p].sql[1]
            IN  /\ sql.name = "posts"
                /\ Len(sql.cols) = 2
                /\ Len(sql.fks) = Len(rs)
                /\ \A i \in 1..Len(rs) :
                      /\ sql.fks[i].col = NameOfId(loc[p].allColumns, rs[i].fromColumnId)
                      /\ sql.fks[i].refTable = NameOfId(loc[p].fetchedTables, rs[i].toTableId)
                      /\ sql.fks[i].refCol = NameOfId(loc[p].allColumns, rs[i].toColumnId)

\* a list of a relation of another table, one with an end not found, and one
\* that resolves: one clause
ForeignKeyClausesWitness ==
    \E p \in Procs :
        /\ pc[p] = "ddl_output"
        /\ loc[p].fetchedRelations =
              << Relation(D1, "t1", "c2", "t2", "c3"),
                 Relation(D1, "t2", "c4", "t9", "c1"),
                 Relation(D1, "t2", "c4", "t1", "c1") >>
        /\ loc[p].sql[1].fks =
              <<[col |-> "author_id", refTable |-> "users", refCol |-> "id"]>>

\* the names of the tables of a database file, in creation order
TableNames(db) == [i \in 1..Len(db) |-> db[i].name]

\* C17: after a successful rebuild the sandbox holds one table for each
\* logical table, named as it, and the metadata table besides; a status call
\* that finds the sandbox not stale reports as tableCount the number of
\* logical tables.
RebuildMaterializesTables ==
    /\ (last.op = "rebuild" /\ last.outcome = "ok") =>
          LET names == TableNames(SandboxFile(last.d)[1])
              logical == SelectTables(ver, last.d)
          IN  /\ Len(names) = Len(logical) + 1
              /\ \A i \in 1..Len(logical) :
                    Cardinality({k \in 1..Len(names) : names[k] = logical[i].name}) = 1
              /\ Cardinality({k \in 1..Len(names) : names[k] = "_schema_hash"}) = 1
    /\ (last.op = "status" /\ last.outcome = "ok" /\ last.status.exists
            /\ ~last.status.isStale) =>
          last.status.tableCount = Len(SelectTables(ver, last.d))

\* a database file with the metadata table and no fingerprint row in it: the
\* file of a rebuild between its CREATE TABLE _schema_hash and its INSERT,
\* before any data table
Unfinished(db) ==
    /\ TableIndex(db, "_schema_hash") # 0
    /\ db[TableIndex(db, "_schema_hash")].rows = <<>>

\* a rebuild of the sandbox file of a diagram identity is suspended after it
\* replaced the file
RebuildSuspended(d) ==
    \E p \in Procs :
        /\ loc[p].op = "rebuild"
        /\ pc[p] \in {"hash_tables", "hash_columns", "hash_relations", "rebuild_resume"}
        /\ getSandboxPath(loc[p].d) = getSandboxPath(d)

\* C20: a list or insert opens a sandbox file that holds the metadata table
\* but not yet the data tables only when it runs while a rebuild of the same
\* diagram is suspended; calls made with no rebuild in flight never do.
PartialSeenOnlyInRace ==
    (/\ last.op \in {"list", "insert"}
     /\ SandboxFile(last.d) # <<>>
     /\ Unfinished(SandboxFile(last.d)[1]))
    => RebuildSuspended(last.d)

\* a list of users, a table of the schema being rebuilt, that ran while the
\* rebuild was suspended: it opened the unfinished file and failed
PartialSeenOnlyInRaceWitness ==
    /\ last.op = "list"
    /\ last.req.table = "users"
    /\ last.existed
    /\ last.outcome = "fail"
    /\ Unfinished(SandboxFile(last.d)[1])
    /\ RebuildSuspended(last.d)
    /\ \E p \in Procs : \E i \in 1..Len(loc[p].fetchedTables) :
          loc[p].fetchedTables[i].name = "users"

\* C21: the fingerprint a successful rebuild stores is the fingerprint of the
\* tables, columns and relations it read and built its tables from, also when
\* the logical schema was edited while the rebuild was suspended.
StoredFingerprintOfSnapshot ==
    [][\A p \in Procs :
          (/\ pc[p] = "rebuild_resume" /\ pc'[p] = "idle"
           /\ last'.op = "rebuild" /\ last'.outcome = "ok")
          => SqlSelectHash(FileAt([dir |-> dir', inode |-> inode'],
                                  getSandboxPath(loc[p].d))[1]).row
                = <<TextV(schemaHashOf(loc[p].fetchedTables, loc[p].allColumns,
                                       loc[p].fetchedRelations))>>]_vars

====
